---- MODULE Spec2Model ----
(***************************************************************************)
(* The match-v5 crawler of League-mbti-analytics:                           *)
(*   src/app/data_ingest/match_crawler.py  (class MatchCrawler)            *)
(*   src/crawl_matches.py                  (the orchestrator, main)        *)
(*   src/app/data_ingest/riot_client.py    (the remote client)             *)
(* One process runs main: it builds a crawler, optionally loads a saved    *)
(* document, crawls from a seed and saves the result.  The program may be  *)
(* run again, resuming from the document a previous run wrote.             *)
(* crawl is modelled statement by statement, so that the states in the     *)
(* middle of a player's match loop are states of the model.                *)
(***************************************************************************)
EXTENDS Integers, Sequences, FiniteSets, TLC

(* ---------------------------------------------------------------- bounds *)
\* The remote world: player ids and match ids the client can name.
Players == {"s", "A", "B"}
Matches == {"m1", "m2"}
\* Largest value of --max-puuids, --max-matches, --matches-per-puuid tried.
MaxPuuidsArg == 3
MaxMatchesArg == 2
MaxPerPuuidArg == 2
\* Longest participant list of a match record.
MaxParticipants == 2
\* Number of times the program is run (the later runs may resume).
MaxRuns == 2

(* ------------------------------------------------------------- sequences *)
Range(seq) == {seq[i] : i \in DOMAIN seq}

IsInjective(seq) == \A i, j \in DOMAIN seq : seq[i] = seq[j] => i = j

\* All sequences over S of length at most n.
SeqsUpTo(S, n) == UNION {[1..k -> S] : k \in 0..n}

\* All sequences over S of length at most n that repeat no element.
InjSeqsUpTo(S, n) == {seq \in SeqsUpTo(S, n) : IsInjective(seq)}

\* The orders in which the elements of a set can be listed.
Orderings(S) == {seq \in [1..Cardinality(S) -> S] : Range(seq) = S}

\* Position of the first occurrence of x in seq (0 when absent).
IndexOf(seq, x) ==
    IF x \in Range(seq)
    THEN CHOOSE i \in DOMAIN seq : seq[i] = x /\ \A j \in 1..(i - 1) : seq[j] # x
    ELSE 0

\* Number of occurrences of x in seq.
Count(seq, x) == Cardinality({i \in DOMAIN seq : seq[i] = x})

(* ------------------------------------------------------------ the client *)
\* A detailed participant object; the puuid field may be missing.
ParticipantObject(p, present) ==
    IF present THEN [puuid |-> p, championName |-> "c"] ELSE [championName |-> "c"]

\* info.participants derived from an id list, with the ids in `hidden` missing.
DetailedObjects(ids, hidden) ==
    [i \in DOMAIN ids |-> ParticipantObject(ids[i], ids[i] \notin hidden)]

\* The players a match document can name besides the one always seeded first.
Others == Players \ {"s"}

\* The match documents get_match_details can return for match_id: the well
\* formed ranked ones (compact id list, detailed objects, classifier 420), a
\* well formed one of another queue (450), one without the compact list whose
\* last participant object lacks its id, one with neither participants nor
\* queue classifier, and the body of an error response (get_match_details does
\* not look at the HTTP status, it returns the JSON body of any response).
ClientRecords(match_id) ==
    LET WellFormed(ids, q) ==
            [metadata |-> [matchId |-> match_id, participants |-> ids],
             info |-> [queueId |-> q, participants |-> DetailedObjects(ids, {})]]
        ranked == {WellFormed(ids, 420) : ids \in InjSeqsUpTo(Others, MaxParticipants)}
        otherQueue == {WellFormed(<<"A">>, 450)}
        compactMissing ==
            {[metadata |-> [matchId |-> match_id],
              info |-> [queueId |-> 420,
                        participants |-> DetailedObjects(<<"A", "B">>, {"B"})]]}
        bare == {[metadata |-> [matchId |-> match_id]]}
        errorBody == {[status |-> [message |-> "Forbidden", status_code |-> 403]]}
    IN  ranked \cup otherQueue \cup compactMissing \cup bare \cup errorBody

\* The API never returns more than this many ids for one listing.
ApiMaxCount == 100

\* The listings get_match_history can return when asked for `count` ids.
ClientListings(count) ==
    InjSeqsUpTo(Matches, IF count < ApiMaxCount THEN count ELSE ApiMaxCount)

(* ----------------------------------------------------------------- state *)
VARIABLES
    \* the run parameters (CrawlConfig), fixed over the runs
    max_puuids, max_matches, matches_per_puuid, queue_filter,
    \* a match-fetched callback was passed to the constructor
    on_match_fetched,
    \* the crawler object
    visited_puuids, fetched_matches, puuid_queue, all_matches,
    \* locals of crawl; a local is reset once the code no longer reads it
    processed_count, current_puuid, match_ids, match_id, match_data,
    new_participants, pending,
    \* the orchestrator
    pc, run, seed_puuid, resume, file, results, exit_error,
    \* history: what the run has done so far
    last_request, history_log, listing_outcomes, loaded_visited, saved_visited,
    saved_fetched,
    discovered, enqueued_round, discovered_before,
    \* the match ids of the current listing whose detail request raised
    failed_round,
    \* a rate-limit delay has elapsed since the latest client request
    delayed,
    \* the argument triples the progress callback was called with in this run
    progress_log,
    \* the documents the match-fetched callback was called with in this run
    notified,
    \* the value a method called on its own has returned
    returned

config == <<max_puuids, max_matches, matches_per_puuid, queue_filter, on_match_fetched>>
crawler == <<visited_puuids, fetched_matches, puuid_queue, all_matches>>
locals == <<processed_count, current_puuid, match_ids, match_id, match_data,
            new_participants, pending>>
orchestrator == <<run, seed_puuid, resume, file, results, exit_error>>
fifo_history == <<discovered, enqueued_round, discovered_before>>
history == <<history_log, listing_outcomes, loaded_visited, saved_visited,
             saved_fetched>>
vars == <<config, crawler, locals, pc, orchestrator, last_request, history, fifo_history,
          failed_round, delayed, progress_log, notified, returned>>

\* Values of variables that hold nothing.
NoFile == [absent |-> TRUE]
\* A file that is not a JSON document.
CorruptFile == [corrupt |-> TRUE]
NoData == [none |-> TRUE]
NoResults == [none |-> TRUE]
NotReturned == [none |-> TRUE]
\* last_request is <<operation, argument, outcome>> of the client request the
\* latest step issued.  history_log lists the players whose match listing the
\* run has requested, listing_outcomes the outcome of each of these requests.
NoRequest == <<"none", "", "">>

(* ------------------------------------------------- MatchCrawler helpers *)
\* The empty dict, the default of dict.get in the crawler.
EmptyDict == [x \in {} |-> 0]

\* dict.get(key, default) on a document.
Get(doc, key, default) == IF key \in DOMAIN doc THEN doc[key] ELSE default

\* The ids of the detailed participant objects that carry a non-empty puuid.
DetailedIds(objects) ==
    LET withId == SelectSeq(objects, LAMBDA p : "puuid" \in DOMAIN p /\ p.puuid # "")
    IN  [i \in DOMAIN withId |-> withId[i].puuid]

\* extract_participants without its fallback to the detailed objects.
extract_participants_NoFallback(match) ==
    Get(Get(match, "metadata", EmptyDict), "participants", <<>>)

extract_participants(match) ==
    LET participants == Get(Get(match, "metadata", EmptyDict), "participants", <<>>)
    IN  IF participants # <<>>
        THEN participants
        ELSE DetailedIds(Get(Get(match, "info", EmptyDict), "participants", <<>>))

\* A filter that also rejects a record that names no participant.
QueueRejected_NeedsParticipants(match, filter) ==
    extract_participants(match) = <<>> \/ Get(Get(match, "info", EmptyDict), "queueId", 0) \notin filter

\* A filter that rejects nothing.
QueueRejected_Never(match, filter) == FALSE

\* queue_id not in self.queue_filter, where a missing queueId reads as None.
QueueRejected(match, filter) ==
    LET info == Get(match, "info", EmptyDict)
    IN  IF "queueId" \in DOMAIN info THEN info.queueId \notin filter ELSE TRUE

\* `if match_data`: None and the empty dict are false.
Truthy(data) == data # NoData /\ data # EmptyDict

\* should_fetch_match without its test on fetched_matches.
should_fetch_match_IgnoresFetched(mid, data, fetched, filter) ==
    IF Truthy(data) /\ filter # {} /\ QueueRejected(data, filter) THEN FALSE ELSE TRUE

\* The queue filter is a set of classifiers; {} stands for no filter (None).
should_fetch_match(mid, data, fetched, filter) ==
    IF mid \in fetched
    THEN FALSE
    ELSE IF Truthy(data) /\ filter # {} /\ QueueRejected(data, filter)
         THEN FALSE
         ELSE TRUE

\* The id a stored match document carries ("" when it carries none).
MatchIdOf(match) == Get(Get(match, "metadata", EmptyDict), "matchId", "")

\* The document is the body of an error response.
IsErrorBody(doc) == "status" \in DOMAIN doc

(* ------------------------------------------------------------------ Init *)
\* The program is about to be run for the first time; the path holds no file,
\* or a file that is not a document.  main passes no match-fetched callback.
Init ==
    /\ max_puuids \in 1..MaxPuuidsArg
    /\ max_matches \in 1..MaxMatchesArg
    /\ matches_per_puuid \in 1..MaxPerPuuidArg
    /\ queue_filter \in {{}, {420}}
    /\ on_match_fetched = FALSE
    /\ visited_puuids = {} /\ fetched_matches = {}
    /\ puuid_queue = <<>> /\ all_matches = <<>>
    /\ processed_count = 0 /\ current_puuid = "" /\ match_ids = <<>>
    /\ match_id = "" /\ match_data = NoData
    /\ new_participants = {} /\ pending = {}
    /\ pc = "start" /\ run = 1 /\ seed_puuid = "" /\ resume = FALSE
    /\ file \in {NoFile, CorruptFile} /\ results = NoResults /\ exit_error = ""
    /\ last_request = NoRequest /\ history_log = <<>> /\ listing_outcomes = <<>>
    /\ loaded_visited = {} /\ saved_visited = {} /\ saved_fetched = {}
    /\ discovered = <<>> /\ enqueued_round = {} /\ discovered_before = {}
    /\ failed_round = {} /\ delayed = FALSE /\ progress_log = <<>>
    /\ notified = <<>> /\ returned = NotReturned

(* ---------------------------------------------------------- orchestrator *)
\* main parses its arguments and constructs the crawler (MatchCrawler.__init__).
\* The first run is seeded with "s"; a later run that does not resume repeats
\* the first, so the later runs resume.
Start ==
    /\ pc = "start"
    /\ seed_puuid' \in (IF run = 1 THEN {"s"} ELSE Players)
    /\ resume' \in (IF file = NoFile THEN BOOLEAN ELSE {TRUE})
    /\ visited_puuids' = {} /\ fetched_matches' = {}
    /\ puuid_queue' = <<>> /\ all_matches' = <<>>
    /\ pc' = IF resume' THEN "load" ELSE "crawl"
    /\ last_request' = NoRequest
    /\ UNCHANGED <<config, returned, notified, progress_log, delayed, failed_round, locals, run, file, results, exit_error, history,
                   fifo_history>>

\* The exception open or json.load raises on the file, "" when the file loads.
LoadError(f) ==
    IF f = NoFile THEN "FileNotFoundError"
    ELSE IF f = CorruptFile THEN "JSONDecodeError" ELSE ""

\* A main that swallows the error of load_state and goes on.
AfterLoad_Swallows(error) == "seed"

\* Where main continues after load_state: it catches nothing, so an error ends
\* the process.
AfterLoad(error) == IF error # "" THEN "crashed" ELSE "seed"

\* crawler.load_state(args.resume): open raises when there is no file and
\* json.load when the file is no document; main catches neither, the process
\* ends with the error.
load_state ==
    /\ pc = "load"
    /\ last_request' = NoRequest
    /\ exit_error' = LoadError(file)
    /\ pc' = AfterLoad(LoadError(file))
    /\ IF LoadError(file) # ""
       THEN UNCHANGED <<crawler, loaded_visited>>
       ELSE LET metadata == Get(file, "metadata", EmptyDict)
            IN  /\ visited_puuids' = Range(Get(metadata, "visited_puuids", <<>>))
                /\ fetched_matches' = Range(Get(metadata, "fetched_match_ids", <<>>))
                /\ all_matches' = IF "matches" \in DOMAIN file
                                  THEN file.matches ELSE all_matches
                /\ loaded_visited' = visited_puuids'
                /\ UNCHANGED puuid_queue
    /\ UNCHANGED <<config, returned, notified, progress_log, delayed, failed_round, locals, run, seed_puuid, resume, file, results,
                   history_log, listing_outcomes, saved_visited, saved_fetched,
                   fifo_history>>

\* main, after load_state: the seed joins the queue unless already visited.
ResumeSeed ==
    /\ pc = "seed"
    /\ puuid_queue' = IF seed_puuid \notin visited_puuids
                      THEN Append(puuid_queue, seed_puuid) ELSE puuid_queue
    /\ pc' = "crawl"
    /\ last_request' = NoRequest
    /\ UNCHANGED <<config, returned, notified, progress_log, delayed, failed_round, visited_puuids, fetched_matches, all_matches, locals,
                   orchestrator, history, fifo_history>>

(* ----------------------------------------------------------------- crawl *)
\* crawl, entry: the seed is appended to the queue and the count starts at 0.
CrawlStart ==
    /\ pc = "crawl"
    /\ puuid_queue' = Append(puuid_queue, seed_puuid)
    /\ processed_count' = 0
    /\ pc' = "loop"
    /\ last_request' = NoRequest
    /\ UNCHANGED <<config, returned, notified, progress_log, delayed, failed_round, visited_puuids, fetched_matches, all_matches,
                   current_puuid, match_ids, match_id, match_data, new_participants,
                   pending, orchestrator, history, fifo_history>>

\* Control is inside crawl: between its first statement and its return.
InCrawl ==
    pc \in {"crawl", "loop", "list", "match", "fetch", "mark", "append", "extract",
            "enqueue", "progress", "return"}

\* The while condition of crawl.
LoopContinues(queue, count, cap) == queue # <<>> /\ count < cap

\* A loop body without the match-limit test.
MatchLimitReached_Never(fetched, cap) == FALSE

\* The match-limit test at the top of the loop body.
MatchLimitReached(fetched, cap) == Cardinality(fetched) >= cap

\* A test that never finds a player processed.
AlreadyProcessed_Never(puuid, visited) == FALSE

\* The already-processed test on the dequeued player.
AlreadyProcessed(puuid, visited) == puuid \in visited

\* A count that is not advanced when a player is dequeued.
CountAfterDequeue_Deferred(count) == count

\* processed_count += 1 for the dequeued player, before its listing is requested.
CountAfterDequeue(count) == count + 1

\* A dequeue that reads the head and leaves it in the queue.
Dequeued_Peeks(queue) == queue

\* The queue after popleft.
Dequeued(queue) == Tail(queue)

\* One pass over the loop head: the while test, the match-limit break, the
\* dequeue, the skip of a visited player, the marking of a new one.
LoopHead ==
    /\ pc = "loop"
    /\ last_request' = NoRequest
    /\ IF ~LoopContinues(puuid_queue, processed_count, max_puuids)
          \/ MatchLimitReached(fetched_matches, max_matches)
       THEN /\ pc' = "return"
            /\ UNCHANGED <<crawler, processed_count, current_puuid>>
       ELSE /\ puuid_queue' = Dequeued(puuid_queue)
            /\ IF AlreadyProcessed(Head(puuid_queue), visited_puuids)
               THEN /\ pc' = "loop"
                    /\ UNCHANGED <<visited_puuids, processed_count, current_puuid>>
               ELSE /\ visited_puuids' = visited_puuids \cup {Head(puuid_queue)}
                    /\ processed_count' = CountAfterDequeue(processed_count)
                    /\ current_puuid' = Head(puuid_queue)
                    /\ pc' = "list"
            /\ UNCHANGED <<fetched_matches, all_matches>>
    /\ UNCHANGED <<config, returned, notified, progress_log, delayed, failed_round, match_ids, match_id, match_data, new_participants, pending,
                   orchestrator, history, fifo_history>>

\* A handler that gives up the crawl when a listing request fails.
AfterListingError_Aborts(here) == "return"

\* The outer handler, `except Exception: ... continue`: the while loop goes on.
AfterListingError(here) == "loop"

\* client.get_match_history(current_puuid, count): it raises (the outer except
\* continues with the next player), returns nothing, or returns a listing.
ListMatches ==
    /\ pc = "list"
    /\ history_log' = Append(history_log, current_puuid)
    /\ delayed' = FALSE
    /\ \/ /\ last_request' = <<"get_match_history", current_puuid, "raised">>
          /\ pc' = AfterListingError(pc)
          /\ current_puuid' = ""
          /\ UNCHANGED <<match_ids, new_participants, discovered, enqueued_round>>
       \/ \E ids \in ClientListings(matches_per_puuid) :
             IF ids = <<>>
             THEN /\ last_request' = <<"get_match_history", current_puuid, "empty">>
                  /\ pc' = "loop"
                  /\ current_puuid' = ""
                  /\ UNCHANGED <<match_ids, new_participants, discovered, enqueued_round>>
             ELSE /\ last_request' = <<"get_match_history", current_puuid, "listed">>
                  /\ match_ids' = ids
                  /\ new_participants' = {}
                  /\ discovered' = <<>>
                  /\ enqueued_round' = {}
                  /\ pc' = "match"
                  /\ UNCHANGED current_puuid
    /\ listing_outcomes' = Append(listing_outcomes, last_request'[3])
    /\ UNCHANGED <<config, returned, notified, progress_log, failed_round, crawler, processed_count, match_id, match_data, pending,
                   orchestrator, loaded_visited, saved_visited, saved_fetched,
                   discovered_before>>

\* A loop head without the sleep: no delay elapses.
RateLimitSleep_Omitted(elapsed) == elapsed

\* time.sleep(self.rate_limit_delay) at the top of every iteration: afterwards
\* a delay has elapsed, whatever was the case before.
RateLimitSleep(elapsed) == TRUE

\* The head of the for loop over match_ids: the rate-limit sleep and the
\* should_fetch_match test; at the end of the listing the enqueue loop starts.
NextMatch ==
    /\ pc = "match"
    /\ last_request' = NoRequest
    /\ match_data' = NoData
    /\ IF match_ids = <<>>
       THEN /\ pending' = new_participants
            /\ failed_round' = {}
            /\ pc' = "enqueue"
            /\ UNCHANGED <<match_ids, match_id, delayed>>
       ELSE /\ delayed' = RateLimitSleep(delayed)
            /\ match_ids' = Tail(match_ids)
            /\ match_id' = Head(match_ids)
            /\ pc' = IF should_fetch_match(Head(match_ids), NoData, fetched_matches,
                                           queue_filter)
                     THEN "fetch" ELSE "match"
            /\ UNCHANGED <<pending, failed_round>>
    /\ UNCHANGED <<config, returned, notified, progress_log, crawler, processed_count, current_puuid,
                   new_participants, orchestrator, history, fifo_history>>

\* The inner handler, `except Exception: ... continue`: the for loop goes on.
AfterDetailError(here) == "match"

\* client.get_match_details(match_id) and the queue filter on its result: the
\* call raises (the inner except continues), the match is rejected, or it is kept.
\* The request has failed when the call raised or returned an error body.
FetchMatch ==
    /\ pc = "fetch"
    /\ delayed' = FALSE
    /\ \/ /\ last_request' = <<"get_match_details", match_id, "raised">>
          /\ pc' = AfterDetailError(pc)
          /\ match_id' = ""
          /\ failed_round' = failed_round \cup {match_id}
          /\ UNCHANGED match_data
       \/ \E data \in ClientRecords(match_id) :
             IF queue_filter # {} /\ QueueRejected(data, queue_filter)
             THEN /\ last_request' = <<"get_match_details", match_id, "rejected">>
                  /\ pc' = "match"
                  /\ match_id' = ""
                  /\ failed_round' = IF IsErrorBody(data)
                                     THEN failed_round \cup {match_id} ELSE failed_round
                  /\ match_data' = data
             ELSE /\ last_request' = <<"get_match_details", match_id, "kept">>
                  /\ match_data' = data
                  /\ pc' = "mark"
                  /\ failed_round' = IF IsErrorBody(data)
                                     THEN failed_round \cup {match_id} ELSE failed_round
                  /\ UNCHANGED match_id
    /\ UNCHANGED <<config, returned, notified, progress_log, crawler, processed_count, current_puuid, match_ids,
                   new_participants, pending, orchestrator, history, fifo_history>>

\* self.fetched_matches.add(match_id)
MarkFetched ==
    /\ pc = "mark"
    /\ fetched_matches' = fetched_matches \cup {match_id}
    /\ pc' = "append"
    /\ last_request' = NoRequest
    /\ UNCHANGED <<config, returned, notified, progress_log, delayed, failed_round, visited_puuids, puuid_queue, all_matches, locals,
                   orchestrator, history, fifo_history>>

\* A corpus that takes the new record at its front.
Appended_AtFront(matches, data) == <<data>> \o matches

\* list.append: the record becomes the last of the corpus.
Appended(matches, data) == Append(matches, data)

\* self.all_matches.append(match_data)
AppendMatch ==
    /\ pc = "append"
    /\ all_matches' = Appended(all_matches, match_data)
    /\ pc' = "extract"
    /\ last_request' = NoRequest
    /\ UNCHANGED <<config, returned, notified, progress_log, delayed, failed_round, visited_puuids, fetched_matches, puuid_queue, locals,
                   orchestrator, history, fifo_history>>

\* The participants of the match that are not visited yet, in list order.
NewlySeen(match, visited) ==
    SelectSeq(extract_participants(match), LAMBDA p : p # "" /\ p \notin visited)

\* seq followed by the elements of more it does not hold yet, in order.
RECURSIVE AppendNew(_, _)
AppendNew(seq, more) ==
    IF more = <<>> THEN seq
    ELSE AppendNew(IF Head(more) \in Range(seq) THEN seq ELSE Append(seq, Head(more)),
                   Tail(more))

\* The participants of the fetched match that are not visited join
\* new_participants; then the match-fetched callback, if one was passed, is
\* called with the document.
ExtractParticipants ==
    /\ pc = "extract"
    /\ new_participants' = new_participants \cup Range(NewlySeen(match_data, visited_puuids))
    /\ discovered' = AppendNew(discovered, NewlySeen(match_data, visited_puuids))
    /\ notified' = IF on_match_fetched THEN Append(notified, match_data) ELSE notified
    /\ match_data' = NoData
    /\ match_id' = ""
    /\ pc' = "match"
    /\ last_request' = NoRequest
    /\ UNCHANGED <<config, returned, progress_log, delayed, failed_round, crawler, processed_count, current_puuid, match_ids, pending,
                   orchestrator, history, enqueued_round, discovered_before>>

\* The enqueue-time test on a discovered player.
RoomInQueue(visited, queue, cap) == Cardinality(visited) + Len(queue) < cap

\* The pairs <<a, b>> of players enqueued in this round, a discovered before b,
\* that the enqueue of puuid adds.
NewPairs(puuid, round, order) ==
    {<<a, puuid>> : a \in {x \in round : IndexOf(order, x) < IndexOf(order, puuid)}}
    \cup {<<puuid, b>> : b \in {x \in round : IndexOf(order, puuid) < IndexOf(order, x)}}

\* One iteration of `for puuid in new_participants`: a set is iterated in an
\* order the program does not choose.
EnqueueDiscovered ==
    /\ pc = "enqueue"
    /\ last_request' = NoRequest
    /\ IF pending = {}
       THEN /\ pc' = "progress"
            /\ UNCHANGED <<puuid_queue, pending, enqueued_round, discovered_before>>
       ELSE \E puuid \in pending :
              /\ pending' = pending \ {puuid}
              /\ pc' = "enqueue"
              /\ IF RoomInQueue(visited_puuids, puuid_queue, max_puuids)
                 THEN /\ puuid_queue' = Append(puuid_queue, puuid)
                      /\ enqueued_round' = enqueued_round \cup {puuid}
                      /\ discovered_before' =
                            discovered_before \cup NewPairs(puuid, enqueued_round, discovered)
                 ELSE UNCHANGED <<puuid_queue, enqueued_round, discovered_before>>
    /\ UNCHANGED <<config, returned, notified, progress_log, delayed, failed_round, visited_puuids, fetched_matches, all_matches, processed_count,
                   current_puuid, match_ids, match_id, match_data, new_participants,
                   orchestrator, history, discovered>>

\* The progress callback, at the end of the try block of a player whose
\* listing was not empty (main prints the three numbers); the player is done.
Progress ==
    /\ pc = "progress"
    /\ progress_log' = Append(progress_log,
                               <<processed_count, Cardinality(fetched_matches),
                                 Len(puuid_queue)>>)
    /\ pc' = "loop"
    /\ current_puuid' = ""
    /\ new_participants' = {}
    /\ discovered' = <<>>
    /\ enqueued_round' = {}
    /\ last_request' = NoRequest
    /\ UNCHANGED <<config, returned, notified, delayed, failed_round, crawler, processed_count, match_ids, match_id, match_data,
                   pending, orchestrator, history, discovered_before>>

\* The result dictionary of crawl ("matches" is all_matches itself).
CrawlResult(count, fetched, visited) ==
    [total_puuids_processed |-> count,
     total_matches_fetched |-> Cardinality(fetched),
     unique_puuids_discovered |-> Cardinality(visited)]

\* crawl returns its result to main.
Return ==
    /\ pc = "return"
    /\ results' = CrawlResult(processed_count, fetched_matches, visited_puuids)
    /\ pc' = "save"
    /\ last_request' = NoRequest
    /\ UNCHANGED <<config, returned, notified, progress_log, delayed, failed_round, crawler, locals, run, seed_puuid, resume, file,
                   exit_error, history, fifo_history>>

(* ------------------------------------------------------------ state store *)
\* A document whose visited list was filled from the fetched ids.
Document_VisitedFromFetched(visited, fetched, matches, include, vlist, flist) ==
    LET metadata == [total_puuids_processed |-> Cardinality(visited),
                     total_matches_fetched |-> Cardinality(fetched),
                     unique_puuids_discovered |-> Cardinality(visited),
                     visited_puuids |-> flist,
                     fetched_match_ids |-> flist]
    IN  IF include
        THEN [metadata |-> metadata, matches |-> matches]
        ELSE [metadata |-> metadata]

\* The document save_results writes: list(set) lists a set in some order.
Document(visited, fetched, matches, include_matches, visited_list, fetched_list) ==
    LET metadata == [total_puuids_processed |-> Cardinality(visited),
                     total_matches_fetched |-> Cardinality(fetched),
                     unique_puuids_discovered |-> Cardinality(visited),
                     visited_puuids |-> visited_list,
                     fetched_match_ids |-> fetched_list]
    IN  IF include_matches
        THEN [metadata |-> metadata, matches |-> matches]
        ELSE [metadata |-> metadata]

\* crawler.save_results(path, include_matches); main passes include_matches=True,
\* a caller of the method may pass either value.
save_results ==
    /\ pc = "save"
    /\ \E include_matches \in BOOLEAN :
       \E visited_list \in Orderings(visited_puuids) :
       \E fetched_list \in Orderings(fetched_matches) :
          file' = Document(visited_puuids, fetched_matches, all_matches,
                           include_matches, visited_list, fetched_list)
    /\ saved_visited' = visited_puuids
    /\ saved_fetched' = fetched_matches
    /\ pc' = "done"
    /\ last_request' = NoRequest
    /\ UNCHANGED <<config, returned, notified, progress_log, delayed, failed_round, crawler, locals, run, seed_puuid, resume, results,
                   exit_error, history_log, listing_outcomes, loaded_visited,
                   fifo_history>>

\* An external signal (SIGINT) reaches the process while control is in crawl.
\* Python raises KeyboardInterrupt between two statements; it is no Exception,
\* so neither except clause of crawl catches it, and main has no handler: the
\* process ends there, its locals gone, the objects as they were.
Interrupt ==
    /\ InCrawl
    /\ pc' = "crashed"
    /\ exit_error' = "KeyboardInterrupt"
    /\ processed_count' = 0 /\ current_puuid' = "" /\ match_ids' = <<>>
    /\ match_id' = "" /\ match_data' = NoData
    /\ new_participants' = {} /\ pending' = {}
    /\ discovered' = <<>> /\ enqueued_round' = {} /\ failed_round' = {}
    /\ last_request' = NoRequest /\ delayed' = FALSE
    /\ UNCHANGED <<config, returned, notified, progress_log, crawler, run, seed_puuid, resume, file, results, history,
                   discovered_before>>

\* The process has ended (normally, with the error of load_state, or by the
\* signal); the program is run again.
NextRun ==
    /\ pc \in {"done", "crashed"}
    /\ run < MaxRuns
    /\ run' = run + 1
    /\ pc' = "start"
    /\ results' = NoResults
    /\ visited_puuids' = {} /\ fetched_matches' = {}
    /\ puuid_queue' = <<>> /\ all_matches' = <<>>
    /\ processed_count' = 0
    /\ seed_puuid' = "" /\ resume' = FALSE /\ exit_error' = ""
    /\ history_log' = <<>> /\ listing_outcomes' = <<>> /\ loaded_visited' = {}
    /\ discovered_before' = {}
    /\ last_request' = NoRequest /\ delayed' = FALSE /\ progress_log' = <<>>
    /\ notified' = <<>>
    /\ UNCHANGED <<config, returned, failed_round, current_puuid, match_ids, match_id, match_data,
                   new_participants, pending, file, saved_visited, saved_fetched,
                   discovered, enqueued_round>>

\* The steps the program takes by itself.
Program ==
    \/ Start \/ load_state \/ ResumeSeed
    \/ CrawlStart \/ LoopHead \/ ListMatches \/ NextMatch \/ FetchMatch
    \/ MarkFetched \/ AppendMatch \/ ExtractParticipants
    \/ EnqueueDiscovered \/ Progress \/ Return
    \/ save_results \/ NextRun

Next == Program \/ Interrupt

Spec == Init /\ [][Next]_vars

\* The program left alone by signals; crawl is sequential code: a step that
\* can be taken is taken.
FairSpec == Init /\ [][Program]_vars /\ WF_vars(Program)

(* ------------------------------------------------ a caller with a callback *)
\* A program that constructs the crawler as main does and passes a
\* match-fetched callback as well.
CallbackInit ==
    /\ max_puuids \in 1..MaxPuuidsArg
    /\ max_matches \in 1..MaxMatchesArg
    /\ matches_per_puuid \in 1..MaxPerPuuidArg
    /\ queue_filter \in {{}, {420}}
    /\ on_match_fetched = TRUE
    /\ visited_puuids = {} /\ fetched_matches = {}
    /\ puuid_queue = <<>> /\ all_matches = <<>>
    /\ processed_count = 0 /\ current_puuid = "" /\ match_ids = <<>>
    /\ match_id = "" /\ match_data = NoData
    /\ new_participants = {} /\ pending = {}
    /\ pc = "start" /\ run = 1 /\ seed_puuid = "" /\ resume = FALSE
    /\ file = NoFile /\ results = NoResults /\ exit_error = ""
    /\ last_request = NoRequest /\ history_log = <<>> /\ listing_outcomes = <<>>
    /\ loaded_visited = {} /\ saved_visited = {} /\ saved_fetched = {}
    /\ discovered = <<>> /\ enqueued_round = {} /\ discovered_before = {}
    /\ failed_round = {} /\ delayed = FALSE /\ progress_log = <<>>
    /\ notified = <<>> /\ returned = NotReturned

CallbackSpec == CallbackInit /\ [][Next]_vars

(* ------------------------------------------- the methods called on their own *)
\* The participant objects a caller can pass: with an id, with an empty id,
\* without the id field.
ParticipantObjects ==
    {ParticipantObject(p, TRUE) : p \in Players \cup {""}} \cup {ParticipantObject("", FALSE)}

\* The match documents a caller can pass to extract_participants: metadata and
\* info each absent, without participants, or with a list of them.
MatchInputs ==
    LET metadatas == {[matchId |-> "m1"]}
                     \cup {[matchId |-> "m1", participants |-> ids] :
                              ids \in SeqsUpTo(Players, MaxParticipants)}
        infos == {[queueId |-> 420]}
                 \cup {[queueId |-> 420, participants |-> objects] :
                          objects \in SeqsUpTo(ParticipantObjects, MaxParticipants)}
    IN  {EmptyDict} \cup {[metadata |-> md] : md \in metadatas}
        \cup {[info |-> i] : i \in infos}
        \cup {[metadata |-> md, info |-> i] : md \in metadatas, i \in infos}

\* The match data a caller can pass to should_fetch_match: none, the empty
\* dict, a document without info, with info but no classifier, with a classifier.
QueueInputs ==
    {NoData, EmptyDict, [metadata |-> [matchId |-> "m1"]],
     [metadata |-> [matchId |-> "m1"], info |-> [gameMode |-> "CLASSIC"]]}
    \cup {[metadata |-> [matchId |-> "m1"], info |-> [queueId |-> q]] : q \in {420, 450}}

\* A crawler in some state and a caller about to call one of the two methods.
CallInit ==
    /\ max_puuids = 1 /\ max_matches = 1 /\ matches_per_puuid = 1
    /\ on_match_fetched = FALSE
    /\ visited_puuids = {} /\ puuid_queue = <<>> /\ all_matches = <<>>
    /\ processed_count = 0 /\ current_puuid = "" /\ match_ids = <<>>
    /\ new_participants = {} /\ pending = {}
    /\ run = 1 /\ seed_puuid = "" /\ resume = FALSE
    /\ file = NoFile /\ results = NoResults /\ exit_error = ""
    /\ last_request = NoRequest /\ history_log = <<>> /\ listing_outcomes = <<>>
    /\ loaded_visited = {} /\ saved_visited = {} /\ saved_fetched = {}
    /\ discovered = <<>> /\ enqueued_round = {} /\ discovered_before = {}
    /\ failed_round = {} /\ delayed = FALSE /\ progress_log = <<>>
    /\ notified = <<>> /\ returned = NotReturned
    /\ \/ /\ pc = "call extract_participants"
          /\ match_data \in MatchInputs
          /\ match_id = "" /\ fetched_matches = {} /\ queue_filter = {}
       \/ /\ pc = "call should_fetch_match"
          /\ match_id \in Matches
          /\ match_data \in QueueInputs
          /\ fetched_matches \in SUBSET Matches
          /\ queue_filter \in {{}, {420}, {420, 440}}

\* result = crawler.extract_participants(match)
CallExtractParticipants ==
    /\ pc = "call extract_participants"
    /\ returned' = extract_participants(match_data)
    /\ pc' = "extract_participants returned"
    /\ UNCHANGED <<config, crawler, locals, orchestrator, last_request, history,
                   fifo_history, failed_round, delayed, progress_log, notified>>

\* result = crawler.should_fetch_match(match_id, match_data)
CallShouldFetchMatch ==
    /\ pc = "call should_fetch_match"
    /\ returned' = should_fetch_match(match_id, match_data, fetched_matches, queue_filter)
    /\ pc' = "should_fetch_match returned"
    /\ UNCHANGED <<config, crawler, locals, orchestrator, last_request, history,
                   fifo_history, failed_round, delayed, progress_log, notified>>

CallNext == CallExtractParticipants \/ CallShouldFetchMatch

CallSpec == CallInit /\ [][CallNext]_vars

(* ================================================================ claims *)
\* The ids of the records of a corpus, in order.
CorpusIds(matches) == [i \in DOMAIN matches |-> MatchIdOf(matches[i])]

\* A record carries a queue classifier of the allow-list.
Allowed(match, filter) ==
    /\ "info" \in DOMAIN match
    /\ "queueId" \in DOMAIN match.info
    /\ match.info.queueId \in filter

\* C1: in every reachable state of every run, fresh or resumed with the same
\* max_puuids, the number of visited players is at most max_puuids.
C1_VisitedWithinCap == Cardinality(visited_puuids) <= max_puuids

\* C2: in every reachable state of crawl, also in the middle of a player's
\* match loop, the number of fetched match ids is at most max_matches.
C2_FetchedWithinCap == Cardinality(fetched_matches) <= max_matches

\* C3: within a run the match listing of a player is requested at most once,
\* and no step adds to the queue an entry for a player that is already visited.
C3_ProcessedOnceNeverReenqueued ==
    [][/\ \A p \in Players : Count(history_log', p) <= 1
       /\ \A p \in visited_puuids : Count(puuid_queue', p) <= Count(puuid_queue, p)]_vars

\* C4: the corpus holds at most one record per match id, and a match-detail
\* request is never issued for an id that is already in fetched_matches.
C4_MatchAcceptedOnce ==
    /\ \A m \in Matches : Count(CorpusIds(all_matches), m) <= 1
    /\ last_request[1] = "get_match_details" => last_request[2] \notin fetched_matches
    /\ pc \in {"fetch", "mark"} => match_id \notin fetched_matches
    /\ pc = "append" => match_id \notin Range(CorpusIds(all_matches))

\* C4 witness: a match already fetched is listed again by a second player and
\* is skipped without a request.
C4_Witness ==
    /\ pc = "match"
    /\ match_id \in fetched_matches
    /\ last_request = NoRequest
    /\ Len(history_log) >= 2
    /\ match_id \in Range(CorpusIds(all_matches))

\* C5: with a queue filter configured, every record of the corpus carries an
\* allowed classifier, only a record with an allowed classifier is marked as
\* fetched, a rejected id is not in fetched_matches after the rejection, and the
\* reported total counts fetched_matches only.
C5_QueueFilterRespected ==
    queue_filter # {} =>
        /\ \A i \in DOMAIN all_matches : Allowed(all_matches[i], queue_filter)
        /\ pc \in {"mark", "append", "extract"} =>
              Allowed(match_data, queue_filter) /\ MatchIdOf(match_data) = match_id
        /\ last_request[1] = "get_match_details" /\ last_request[3] = "rejected"
              => last_request[2] \notin fetched_matches
        /\ pc = "save" => results.total_matches_fetched = Cardinality(fetched_matches)

\* C5 witness: under the filter one match was rejected while another is in the
\* corpus.
C5_Witness ==
    /\ queue_filter # {}
    /\ last_request[1] = "get_match_details" /\ last_request[3] = "rejected"
    /\ all_matches # <<>>
    /\ last_request[2] \notin fetched_matches

\* C6: right after every step that appends to the queue (the seed at crawl
\* start, the seed on resume, a discovered participant) the visited players and
\* the queue together number at most max_puuids.
C6_EnqueueWithinCap ==
    [][Len(puuid_queue') > Len(puuid_queue)
         => Cardinality(visited_puuids') + Len(puuid_queue') <= max_puuids]_vars

\* C7: every run of crawl eventually returns its result to main.
C7_CrawlReturns == (pc = "crawl") ~> (pc = "save")

\* C7 witness: crawl has returned after processing two players and fetching a
\* match.
C7_Witness == pc = "save" /\ processed_count >= 2 /\ fetched_matches # {}

\* C8: when two players were enqueued in the same round, the one discovered
\* first has its match listing requested first.
C8_FifoDiscoveryOrder ==
    \A pair \in discovered_before :
        (pair[1] \in Range(history_log) /\ pair[2] \in Range(history_log))
            => IndexOf(history_log, pair[1]) < IndexOf(history_log, pair[2])

\* C9: a run that resumed from a saved document never requests the match
\* listing of a player of the loaded visited set.
C9_ResumeSkipsVisited == Range(history_log) \cap loaded_visited = {}

\* C9 witness: a resumed run with the seed of the first run, which is in the
\* loaded visited set, has gone through crawl.
C9_Witness ==
    /\ pc = "save" /\ run = 2 /\ resume
    /\ seed_puuid = "s" /\ seed_puuid \in loaded_visited
    /\ Cardinality(loaded_visited) >= 2

\* C10: right after load_state has read the document save_results wrote, the
\* visited set and the fetched set are the sets of the time of the save.
C10_SaveLoadRoundTrip ==
    pc = "seed" => visited_puuids = saved_visited /\ fetched_matches = saved_fetched

\* C10 witness: documents with and without the match records were loaded,
\* holding several players and matches.
C10_Witness ==
    /\ pc = "seed"
    /\ Cardinality(visited_puuids) >= 2 /\ Cardinality(fetched_matches) >= 2
    /\ "matches" \notin DOMAIN file

\* C10, second case: the loaded document carried the match records.
C10_WitnessWithMatches ==
    /\ pc = "seed"
    /\ Cardinality(visited_puuids) >= 2 /\ Cardinality(fetched_matches) >= 2
    /\ "matches" \in DOMAIN file /\ Len(all_matches) >= 2

\* C11: at every point of crawl, the point between the marking of a match id
\* as fetched and the append of its record included, every id of
\* fetched_matches has exactly one record in the corpus and every record of the
\* corpus has its id in fetched_matches.
C11_FetchedMatchesCorpus ==
    InCrawl =>
        /\ \A m \in fetched_matches : Count(CorpusIds(all_matches), m) = 1
        /\ Range(CorpusIds(all_matches)) \subseteq fetched_matches

\* C12: once a run was interrupted by an external signal during crawl, the
\* state collected so far is on the output path, as after a normal completion.
C12_InterruptedStateSaved ==
    exit_error = "KeyboardInterrupt" =>
        /\ file \notin {NoFile, CorruptFile}
        /\ saved_visited = visited_puuids
        /\ saved_fetched = fetched_matches

\* C13: when load_state fails because the resume file is missing or is no
\* document, the error ends the process: visited_puuids, fetched_matches and
\* all_matches are as before the call, no crawl is started and no document is
\* written.
C13_LoadFailurePropagates ==
    [][/\ (pc = "load" /\ file \in {NoFile, CorruptFile}) =>
            /\ pc' = "crashed"
            /\ exit_error' \in {"FileNotFoundError", "JSONDecodeError"}
            /\ UNCHANGED <<visited_puuids, fetched_matches, all_matches, file>>
       /\ (pc = "crashed" /\ exit_error \in {"FileNotFoundError", "JSONDecodeError"}) =>
            /\ history_log = <<>> /\ results = NoResults
            /\ visited_puuids = {} /\ fetched_matches = {} /\ all_matches = <<>>
            /\ pc' = "start" /\ file' = file]_vars

\* C13 witness: a run resumed from a path that holds no file has ended with
\* the error.
C13_Witness ==
    /\ pc = "crashed" /\ resume /\ file = NoFile
    /\ exit_error = "FileNotFoundError"

\* C13, second case: the file is no document.
C13_WitnessCorrupt ==
    /\ pc = "crashed" /\ resume /\ file = CorruptFile
    /\ exit_error = "JSONDecodeError"

\* C14: in a fresh run whose seed has an empty match listing, no match-detail
\* request is issued, nothing is fetched or stored, and crawl returns
\* total_puuids_processed = 1 and total_matches_fetched = 0.
C14_SeedWithoutMatches ==
    (~resume /\ history_log # <<>> /\ history_log[1] = seed_puuid
        /\ listing_outcomes[1] = "empty") =>
        /\ pc \in {"loop", "return", "save", "done", "crashed"}
        /\ last_request[1] # "get_match_details"
        /\ history_log = <<seed_puuid>>
        /\ fetched_matches = {} /\ all_matches = <<>>
        /\ pc \in {"save", "done"} =>
              /\ results.total_puuids_processed = 1
              /\ results.total_matches_fetched = 0

\* C14 witness: such a run has returned from crawl although more players and
\* matches were allowed.
C14_Witness ==
    /\ pc = "save" /\ ~resume /\ run = 1
    /\ history_log = <<seed_puuid>> /\ listing_outcomes = <<"empty">>
    /\ max_puuids > 1 /\ max_matches > 1

\* The ids of the participant objects that carry a non-empty id, in order.
RECURSIVE IdsPresent(_)
IdsPresent(objects) ==
    IF objects = <<>> THEN <<>>
    ELSE LET p == Head(objects)
         IN  (IF "puuid" \in DOMAIN p /\ p.puuid # "" THEN <<p.puuid>> ELSE <<>>)
             \o IdsPresent(Tail(objects))

\* C15: extract_participants returns the compact participant-id list when it is
\* present and non-empty; otherwise it returns, in order, exactly the ids of the
\* detailed participant objects that carry a non-empty id.
C15_ExtractParticipants ==
    pc = "extract_participants returned" =>
        IF "metadata" \in DOMAIN match_data
           /\ "participants" \in DOMAIN match_data.metadata
           /\ match_data.metadata.participants # <<>>
        THEN returned = match_data.metadata.participants
        ELSE IF "info" \in DOMAIN match_data /\ "participants" \in DOMAIN match_data.info
             THEN returned = IdsPresent(match_data.info.participants)
             ELSE returned = <<>>

\* C15 witness: without a compact list, the first detailed object lacks its id
\* and the second carries one.
C15_Witness ==
    /\ pc = "extract_participants returned"
    /\ "metadata" \in DOMAIN match_data
    /\ "participants" \notin DOMAIN match_data.metadata
    /\ "info" \in DOMAIN match_data /\ "participants" \in DOMAIN match_data.info
    /\ Len(match_data.info.participants) = 2
    /\ "puuid" \notin DOMAIN match_data.info.participants[1]
    /\ returned = <<"A">>

\* C15, second case: the compact list is there and is returned although the
\* detailed objects name other players.
C15_WitnessCompact ==
    /\ pc = "extract_participants returned"
    /\ returned = <<"A", "B">>
    /\ "info" \in DOMAIN match_data /\ "participants" \in DOMAIN match_data.info
    /\ IdsPresent(match_data.info.participants) = <<"s">>

\* C16: should_fetch_match returns false exactly when the match id is in
\* fetched_matches, or match data is supplied, a queue filter is configured and
\* the classifier of the data is not in the filter; it changes no crawler state.
C16_ShouldFetchMatch ==
    [][pc = "call should_fetch_match" =>
         /\ returned' = ~(\/ match_id \in fetched_matches
                          \/ /\ match_data # NoData
                             /\ queue_filter # {}
                             /\ ~(/\ "info" \in DOMAIN match_data
                                  /\ "queueId" \in DOMAIN match_data.info
                                  /\ match_data.info.queueId \in queue_filter))
         /\ UNCHANGED crawler]_vars

\* C17: when the match-listing request for the dequeued player fails, crawl goes
\* on: the step leaves the corpus, fetched_matches and the queue as they were,
\* the player is in visited_puuids and is counted as processed, crawl returns
\* only when the queue is empty or a limit is reached, and no listing is
\* requested twice in a run.
C17_ListingFailureSkipsPlayer ==
    [][/\ (pc = "list" /\ last_request'[1] = "get_match_history"
              /\ last_request'[3] = "raised") =>
            /\ UNCHANGED <<all_matches, fetched_matches, puuid_queue>>
            /\ current_puuid \in visited_puuids'
            /\ processed_count' = Len(history_log')
            /\ pc' # "crashed"
       /\ pc' = "return" =>
            \/ puuid_queue' = <<>>
            \/ processed_count' >= max_puuids
            \/ Cardinality(fetched_matches') >= max_matches
       /\ \A p \in Players : Count(history_log', p) <= 1]_vars

\* C17 witness: the listing of the second player failed and the third player
\* of the queue has had its listing requested.
C17_Witness ==
    /\ Len(history_log) = 3
    /\ listing_outcomes[2] = "raised"
    /\ history_log[2] \in visited_puuids
    /\ processed_count = 3

\* C18: when the detail request for a match id fails, the id is not added to
\* fetched_matches and no record is appended to the corpus for it while the
\* listing is worked through, and the match loop ends only when every id of the
\* listing has been taken up.
C18_DetailFailureSkipsMatch ==
    [][/\ failed_round' \cap fetched_matches' = {}
       /\ Len(all_matches') > Len(all_matches) => match_id \notin failed_round
       /\ (pc' = "enqueue" /\ pc # "enqueue") => match_ids' = <<>>]_vars

\* C19: every match-detail request is issued after a rate-limit delay that
\* followed the previous client request (the listing or a detail request): no
\* two requests of a match loop are issued without a delay between them.
C19_DelayBeforeDetailRequest ==
    [][last_request'[1] = "get_match_details" => delayed]_vars

\* C19 witness: in the match loop of the first player a second detail request
\* has been issued after the first match was fetched.
C19_Witness ==
    /\ run = 1 /\ Len(history_log) = 1
    /\ last_request[1] = "get_match_details"
    /\ fetched_matches # {}
    /\ last_request[2] \notin fetched_matches

\* The number of listing requests of the run that succeeded.
ListingsSucceeded(outcomes) ==
    Cardinality({i \in DOMAIN outcomes : outcomes[i] \in {"empty", "listed"}})

\* C20: when crawl is done with a player whose listing request succeeded (an
\* empty listing included) and goes back to the queue, the progress callback
\* has been called once for each such player of the run, the last time with
\* the number of players processed so far, the size of fetched_matches and the
\* length of the queue as they are then.
C20_ProgressPerListedPlayer ==
    [][(pc \in {"list", "progress"} /\ pc' = "loop"
           /\ listing_outcomes'[Len(listing_outcomes')] # "raised") =>
          /\ Len(progress_log') = ListingsSucceeded(listing_outcomes')
          /\ progress_log'[Len(progress_log')]
                = <<processed_count', Cardinality(fetched_matches'),
                    Len(puuid_queue')>>]_vars

\* C21: the match-fetched callback is called only at the end of the step that
\* accepted a match, with the record that is then the last of the corpus and
\* whose id is in fetched_matches, never for a match whose detail request
\* failed, and in a fresh run once for each record of the corpus.
C21_NotifiedOncePerAcceptedMatch ==
    [][/\ notified' # notified /\ pc' # "start" =>
            /\ pc = "extract"
            /\ notified' = Append(notified, match_data)
            /\ all_matches # <<>> /\ all_matches[Len(all_matches)] = match_data
            /\ match_id \in fetched_matches
            /\ match_id \notin failed_round
       /\ (on_match_fetched /\ ~resume /\ pc' \in {"match", "enqueue", "progress", "loop"})
            => notified' = all_matches']_vars

\* The record has neither a compact participant list nor detailed objects.
NoParticipants(doc) ==
    /\ Get(Get(doc, "metadata", EmptyDict), "participants", <<>>) = <<>>
    /\ Get(Get(doc, "info", EmptyDict), "participants", <<>>) = <<>>

\* C22: a fetched record without participants is rejected only by the queue
\* filter; once accepted it is the last record of the corpus, its id is in
\* fetched_matches, and the extraction step after it goes on with the match
\* loop and adds no player to the discovered ones or to the queue.
C22_RecordWithoutParticipants ==
    [][/\ (pc = "fetch" /\ last_request'[3] = "rejected") =>
            queue_filter # {} /\ ~Allowed(match_data', queue_filter)
       /\ (pc = "extract" /\ pc' # "crashed" /\ NoParticipants(match_data)) =>
            /\ pc' = "match"
            /\ match_id \in fetched_matches
            /\ all_matches # <<>> /\ all_matches[Len(all_matches)] = match_data
            /\ new_participants' = new_participants
            /\ puuid_queue' = puuid_queue]_vars

\* C22 witness: under the queue filter a ranked record that names no
\* participant has been accepted after another match had brought players in.
C22_Witness ==
    /\ pc = "extract" /\ queue_filter # {}
    /\ NoParticipants(match_data) /\ ~IsErrorBody(match_data)
    /\ match_id \in fetched_matches
    /\ Len(all_matches) = 2 /\ all_matches[2] = match_data
    /\ new_participants # {}

\* C23: every step taken inside crawl leaves visited_puuids and
\* fetched_matches supersets of what they were and the corpus an extension of
\* what it was: nothing is removed or reordered.
C23_MonotoneDuringCrawl ==
    [][InCrawl =>
         /\ visited_puuids \subseteq visited_puuids'
         /\ fetched_matches \subseteq fetched_matches'
         /\ Len(all_matches) <= Len(all_matches')
         /\ SubSeq(all_matches', 1, Len(all_matches)) = all_matches]_vars

\* C23 witness: inside crawl both sets and the corpus have grown twice.
C23_Witness ==
    /\ InCrawl /\ ~resume
    /\ Len(all_matches) = 2
    /\ Cardinality(fetched_matches) = 2
    /\ Cardinality(visited_puuids) >= 2

\* C24: in a run started from fresh state, where every listing holds at most
\* matches_per_puuid ids, fetched_matches always has fewer than
\* max_matches + matches_per_puuid ids.
C24_OvershootWithinOneListing ==
    ~resume => Cardinality(fetched_matches) < max_matches + matches_per_puuid

\* C24 witness: the cap was overshot as far as one listing allows.
C24_Witness ==
    /\ ~resume /\ InCrawl
    /\ Cardinality(fetched_matches) > max_matches
    /\ Cardinality(fetched_matches) = max_matches + matches_per_puuid - 1

\* C25: the queue is not saved.  In a run that resumed from a document and
\* whose seed is in the loaded visited set, crawl requests nothing from the
\* client, leaves visited_puuids, fetched_matches and the corpus as they were
\* loaded, and returns total_puuids_processed = 0.
C25_ResumeWithVisitedSeed ==
    (resume /\ seed_puuid \in loaded_visited /\ (InCrawl \/ pc = "save")) =>
        /\ history_log = <<>>
        /\ last_request = NoRequest
        /\ visited_puuids = loaded_visited
        /\ visited_puuids = Range(file.metadata.visited_puuids)
        /\ fetched_matches = Range(file.metadata.fetched_match_ids)
        /\ all_matches = Get(file, "matches", <<>>)
        /\ pc = "save" => results.total_puuids_processed = 0

\* C25 witness: the first run fetched a match of the seed that named "A" and
\* "B", enqueued them and stopped at the match limit with both still in the
\* queue; the resumed run with the same seed has returned.
C25_Witness ==
    /\ pc = "save" /\ run = 2 /\ resume
    /\ seed_puuid = "s" /\ loaded_visited = {"s"}
    /\ max_puuids = 3
    /\ "matches" \in DOMAIN file /\ Len(file.matches) = 1
    /\ extract_participants(file.matches[1]) = <<"A", "B">>
    /\ results.total_puuids_processed = 0

====
